---- MODULE Spec2Model ----
(***************************************************************************)
(* State-machine model of src/Neural Networks/neural_net.py: the graph of  *)
(* Input / Weight / Neuron / PerformanceElem nodes, Network construction,  *)
(* the cached forward pass and derivative, and the train() / test() loops. *)
(*                                                                         *)
(* Numbers: Python floats are modelled in fixed point, SCALE units = 1.0.  *)
(* Objects: every Input, Weight and Neuron object is an identifier; the    *)
(* object's name is a separate field (w_name, Chars), because the code     *)
(* compares weights by identity in some places and by name in others.      *)
(***************************************************************************)
EXTENDS Integers, Sequences, FiniteSets, TLC

\* ------------------------------------------------------------------ bounds
\* largest max_iterations passed to train()
MaxIter == 2
\* number of dOutdX calls applied in a row by SpecDeriv
MaxCalls == 2
\* number of set_value calls applied by SpecApi
MaxSets == 2

\* ------------------------------------------------------------- arithmetic
\* fixed-point unit: the integer that stands for the float 1.0
SCALE == 1000

Abs(x) == IF x < 0 THEN -x ELSE x

\* float product a*b, rounded to the nearest unit
FMul(a, b) ==
  LET p == a * b
  IN  IF p >= 0 THEN (p + SCALE \div 2) \div SCALE
                ELSE -((-p + SCALE \div 2) \div SCALE)

\* 1000/(1+e^(-k/10)) for k = 0..60
SigTab ==
  << 500, 525, 550, 574, 599, 622, 646, 668, 690, 711,
     731, 750, 769, 786, 802, 818, 832, 846, 858, 870,
     881, 891, 900, 909, 917, 924, 931, 937, 943, 948,
     953, 957, 961, 964, 968, 971, 973, 976, 978, 980,
     982, 984, 985, 987, 988, 989, 990, 991, 992, 993,
     993, 994, 995, 995, 996, 996, 996, 997, 997, 997, 998 >>

\* 1.0/(1.0 + np.exp(-z)): z is rounded to a tenth and saturates at |z| = 6
Sigmoid(z) ==
  LET a == Abs(z)
      k == IF (a + 50) \div 100 > 60 THEN 60 ELSE (a + 50) \div 100
      s == SigTab[k + 1]
  IN  IF z >= 0 THEN s ELSE SCALE - s

\* Python 3 round() of a sigmoid output in (0,1): half goes to the even 0
Round(v) == IF v > SCALE \div 2 THEN SCALE ELSE 0

\* ------------------------------------------------------------ option values
None == [some |-> FALSE, val |-> 0]
Some(v) == [some |-> TRUE, val |-> v]

\* results of calls: a float, a bool, or a raised exception
Ret(v) == [err |-> "none", val |-> v, b |-> FALSE]
RetB(x) == [err |-> "none", val |-> 0, b |-> x]
Raise(e) == [err |-> e, val |-> 0, b |-> FALSE]

\* ------------------------------------------------------------------ names
\* the characters of the names of Input and Neuron objects
Chars(id) ==
  CASE id = "i0"  -> <<"i", "0">>
    [] id = "i1"  -> <<"i", "1">>
    [] id = "i2"  -> <<"i", "2">>
    [] id = "xi0" -> <<"x", "i", "0">>
    [] id = "A"   -> <<"A">>
    [] id = "B"   -> <<"B">>
    [] id = "C"   -> <<"C">>
    [] id = "A11" -> <<"A", "1", "1">>
    [] id = "A12" -> <<"A", "1", "2">>

\* code point of a character
Ord(c) ==
  CASE c = "0" -> 48 [] c = "1" -> 49 [] c = "2" -> 50
    [] c = "A" -> 65 [] c = "B" -> 66 [] c = "C" -> 67
    [] c = "i" -> 105 [] c = "x" -> 120

\* Python: sub in s   (substring test on strings)
Contains(s, sub) ==
  \E k \in 0..(Len(s) - Len(sub)) :
    \A j \in 1..Len(sub) : s[k + j] = sub[j]

\* Python: s.startswith(pre)
StartsWith(s, pre) ==
  /\ Len(pre) <= Len(s)
  /\ \A j \in 1..Len(pre) : s[j] = pre[j]

\* Python: s > t on strings (lexicographic by code point)
StrGreater(s, t) ==
  \E k \in 1..Len(s) :
    /\ \A j \in 1..(k - 1) : j <= Len(t) /\ s[j] = t[j]
    /\ (k > Len(t) \/ (k <= Len(t) /\ Ord(s[k]) > Ord(t[k])))

\* ------------------------------------------------------------- the objects
InputIds == {"i0", "i1", "i2", "xi0"}
\* Weight objects that belong to no neuron: s1 is constructed with a name
\* that a weight of the network also has ("wA"), s3 with a name of its own
StrayWeights == {"s1", "s3"}

\* A network builder's result: the caller's neuron list, each neuron's
\* input and weight lists, the output neuron, and every Weight's name.
Builder(c) ==
  CASE c = "basic" ->
         [ neurons |-> <<"A">>,
           ins |-> [n \in {"A"} |-> <<"i1", "i2", "i0">>],
           ws  |-> [n \in {"A"} |-> <<"w1A", "w2A", "wA">>],
           out |-> "A",
           renamed |-> {} ]
    [] c = "moons" ->
         [ neurons |-> <<"A11", "A12", "B">>,
           ins |-> [n \in {"A11", "A12", "B"} |->
                     IF n = "B" THEN <<"A11", "A12", "i0">>
                                ELSE <<"i1", "i2", "i0">>],
           ws  |-> [n \in {"A11", "A12", "B"} |->
                     CASE n = "A11" -> <<"w1A11", "w2A11", "wA11">>
                       [] n = "A12" -> <<"w1A12", "w2A12", "wA12">>
                       [] n = "B"   -> <<"wA11B", "wA12B", "wB">>],
           out |-> "B",
           renamed |-> {} ]
    [] c = "diamond" ->
         [ neurons |-> <<"A", "B", "C">>,
           ins |-> [n \in {"A", "B", "C"} |->
                     CASE n = "A" -> <<"i1", "i0">>
                       [] n = "B" -> <<"A">>
                       [] n = "C" -> <<"A", "B">>],
           ws  |-> [n \in {"A", "B", "C"} |->
                     CASE n = "A" -> <<"w1A", "wA">>
                       [] n = "B" -> <<"wAB">>
                       [] n = "C" -> <<"wAC", "wBC">>],
           out |-> "C",
           renamed |-> {} ]
    [] c = "twolayer" ->
         [ neurons |-> <<"A", "B", "C">>,
           ins |-> [n \in {"A", "B", "C"} |->
                     IF n = "C" THEN <<"i0", "A", "B">>
                                ELSE <<"i0", "i1">>],
           ws  |-> [n \in {"A", "B", "C"} |->
                     CASE n = "A" -> <<"wA", "w1A">>
                       [] n = "B" -> <<"wB", "w1B">>
                       [] n = "C" -> <<"wC", "wAC", "wBC">>],
           out |-> "C",
           renamed |-> {"wC"} ]
    [] c = "xinput" ->
         [ neurons |-> <<"A">>,
           ins |-> [n \in {"A"} |-> <<"i1", "xi0", "i0">>],
           ws  |-> [n \in {"A"} |-> <<"w1A", "w2A", "wA">>],
           out |-> "A",
           renamed |-> {} ]

Builders == {"basic", "moons", "diamond", "twolayer", "xinput"}

Range(s) == {s[k] : k \in 1..Len(s)}

\* the Weight objects a builder creates
WeightsOf(c) ==
  UNION {Range(Builder(c).ws[n]) : n \in DOMAIN Builder(c).ws}

\* Weight(name, val): the name each Weight object is constructed with
NameOfWeight(c, w) ==
  CASE w = "s1" -> "wA"
    [] w = "s3" -> "wZ"
    [] w \in Builder(c).renamed -> "wAC"
    [] OTHER -> w

\* random_weight(): random.randrange(-1, 2) after random.seed(); the k-th
\* draw of a seeded generator is one of -1, 0, 1
Seeds == {0, 1}
random_weight(seed, k) == (((k * (seed + 1) + seed) % 3) - 1) * SCALE

\* position of an element in the enumeration of a set of identifiers
RECURSIVE Rank(_, _)
Rank(S, x) ==
  IF S = {} THEN 0
  ELSE LET y == CHOOSE z \in S : TRUE
       IN  IF y = x THEN 0 ELSE 1 + Rank(S \ {y}, x)

Perms(s) ==
  {p \in [1..Len(s) -> Range(s)] : \A x \in Range(s) : \E k \in 1..Len(s) : p[k] = x}

\* ------------------------------------------------------------------- state
VARIABLES
  \* Neuron fields set by Neuron.__init__ and never reassigned
  my_inputs, my_weights, use_cache,
  \* ValuedElement.my_name of each Weight, ValuedElement.my_value of each
  \* Input and Weight, Weight.next_value
  w_name, in_value, w_value, next_value,
  \* Neuron caches
  my_output, my_doutdx, my_descendant_weights,
  \* PerformanceElem fields
  my_input, my_desired_val,
  \* the caller's neuron list and the Network object built from it
  neurons, net_neurons, net_weights, net_inputs,
  \* the running call: its position, the last finished call and its result
  pc, last, ret,
  \* arguments and locals of train() / test()
  data, rate, target_abs_mean_performance, max_iterations,
  iteration, di, wi, performances, correct, result,
  \* history: weight values when the current datum's step began, whether a
  \* value changed since Network.clear_cache, number of calls applied
  pre, dirty, ncalls

graphVars == <<my_inputs, my_weights, use_cache, w_name, my_input>>
valueVars == <<in_value, w_value, next_value, my_desired_val>>
cacheVars == <<my_output, my_doutdx, my_descendant_weights>>
netVars   == <<neurons, net_neurons, net_weights, net_inputs>>
callVars  == <<pc, last, ret>>
trainVars == <<data, rate, target_abs_mean_performance, max_iterations,
               iteration, di, wi, performances, correct, result>>
histVars  == <<pre, dirty, ncalls>>
vars == <<graphVars, valueVars, cacheVars, netVars, callVars, trainVars, histVars>>

NeuronIds == DOMAIN my_inputs
WeightIds == DOMAIN w_value

NoCall == [op |-> "-", n |-> "-", t |-> "-", w |-> "-", hit |-> FALSE, old |-> 0]
EmptyMap == [k \in {} |-> {}]
NoMap == [some |-> FALSE, map |-> EmptyMap]

\* ---------------------------------------------------------- construction
\* A scenario: which builder ran, the order in which the caller lists the
\* neurons, the generator seed, the value the non-bias Inputs are
\* constructed with, and the use_cache argument of the Neurons.
Scenario(c, order, seed, x, uc, strays) ==
  [c |-> c, order |-> order, seed |-> seed, x |-> x, uc |-> uc, strays |-> strays]

\* the builders that follow the naming rule of the builders' docstring
\* ("All names should be unique")
UniqueBuilders == {c \in Builders : Builder(c).renamed = {}}

\* every builder with either seed (the non-bias Inputs are constructed
\* with 0.0 under seed 0 and with 1.0 under seed 1) and either use_cache,
\* the neurons listed in builder order, and both stray weights at hand
ValueScenarios ==
  {Scenario(c, Builder(c).neurons, seed, seed * SCALE, uc, StrayWeights) :
     c \in Builders, seed \in Seeds, uc \in BOOLEAN}

\* every uniquely named builder with every order of the caller's neuron
\* list, and the uniquely named stray weight at hand
OrderScenarios ==
  UNION {{Scenario(c, order, 0, 0, TRUE, {"s3"}) : order \in Perms(Builder(c).neurons)} :
           c \in UniqueBuilders}

\* Weight(name, val) in the builders: 1 as in make_neural_net_basic (the
\* single-neuron and the diamond graph under seed 0), random_weight()
\* elsewhere
InitialWeight(c, seed, w) ==
  IF (c \in {"basic", "diamond"} /\ seed = 0) \/ w \in StrayWeights THEN SCALE
  ELSE random_weight(seed, Rank(WeightsOf(c), w))

\* the state once the builder has created the Inputs, Weights, Neurons and
\* the PerformanceElem, and is about to call Network(P, neurons)
InitOf(sc) ==
  LET bd == Builder(sc.c)
      N  == DOMAIN bd.ins
      W  == WeightsOf(sc.c) \cup sc.strays
      I  == UNION {Range(bd.ins[n]) : n \in N} \cap InputIds
  IN
  /\ my_inputs = bd.ins
  /\ my_weights = bd.ws
  /\ use_cache = [n \in N |-> sc.uc]
  /\ w_name = [w \in W |-> NameOfWeight(sc.c, w)]
  /\ in_value = [i \in I |-> IF i = "i0" THEN -SCALE ELSE sc.x]
  /\ w_value = [w \in W |-> InitialWeight(sc.c, sc.seed, w)]
  /\ next_value = [w \in W |-> None]
  /\ my_output = [n \in N |-> None]
  /\ my_doutdx = [n \in N |-> [w \in W |-> None]]
  /\ my_descendant_weights = [n \in N |-> NoMap]
  /\ my_input = bd.out
  /\ my_desired_val = 0
  /\ neurons = sc.order
  /\ net_neurons = <<>>
  /\ net_weights = <<>>
  /\ net_inputs = <<>>
  /\ pc = "new"
  /\ last = NoCall
  /\ ret = Ret(0)
  /\ data = <<>>
  /\ rate = 0
  /\ target_abs_mean_performance = 0
  /\ max_iterations = 0
  /\ iteration = 0
  /\ di = 0
  /\ wi = 0
  /\ performances = <<>>
  /\ correct = 0
  /\ result = 0
  /\ pre = [w \in W |-> InitialWeight(sc.c, sc.seed, w)]
  /\ dirty = FALSE
  /\ ncalls = 0

Init == \E sc \in ValueScenarios \cup OrderScenarios : InitOf(sc)
InitOrders == \E sc \in OrderScenarios : InitOf(sc)
InitValues == \E sc \in ValueScenarios : InitOf(sc)
InitSmall == \E sc \in {v \in ValueScenarios : v.c \in {"basic", "diamond"}} : InitOf(sc)

\* ------------------------------------------------------- Network.__init__
\* utility.alphabetize(x, y): the comparison function of the sort
alphabetize(x, y) ==
  IF StrGreater(Chars(x), Chars(y)) THEN 1
  ELSE IF StrGreater(Chars(y), Chars(x)) THEN -1 ELSE 0

\* list.sort(key=cmp_to_key(cmp)): a stable sort; x goes after every
\* element that does not compare greater than it
RECURSIVE InsertSorted(_, _)
InsertSorted(s, x) ==
  IF s = <<>> THEN <<x>>
  ELSE IF alphabetize(s[Len(s)], x) <= 0 THEN Append(s, x)
  ELSE Append(InsertSorted(SubSeq(s, 1, Len(s) - 1), x), s[Len(s)])

RECURSIVE SortNeurons(_)
SortNeurons(s) ==
  IF s = <<>> THEN <<>>
  ELSE InsertSorted(SortNeurons(SubSeq(s, 1, Len(s) - 1)), s[Len(s)])

\* for n in self.neurons: self.weights += n.get_weight_nodes()
RECURSIVE CollectWeights(_)
CollectWeights(ns) ==
  IF ns = <<>> THEN <<>>
  ELSE my_weights[Head(ns)] \o CollectWeights(Tail(ns))

\* the test that keeps an element of a neuron's input list out of, or puts
\* it into, Network.inputs
KeepsInput(i, acc) ==
  /\ i \in InputIds
  /\ ~Contains(Chars(i), <<"i", "0">>)
  /\ i \notin Range(acc)

\* for i in neuron.get_inputs(): ... self.inputs.append(i)
RECURSIVE CollectFrom(_, _)
CollectFrom(ins, acc) ==
  IF ins = <<>> THEN acc
  ELSE CollectFrom(Tail(ins),
                   IF KeepsInput(Head(ins), acc) THEN Append(acc, Head(ins)) ELSE acc)

RECURSIVE CollectInputs(_, _)
CollectInputs(ns, acc) ==
  IF ns = <<>> THEN acc
  ELSE CollectInputs(Tail(ns), CollectFrom(my_inputs[Head(ns)], acc))

\* a constructor that keeps the caller's order (no sort)
NetworkNeurons_unsorted(given) == given

\* self.neurons = neurons[:]; self.neurons.sort(...): the Network's own list
NetworkNeurons(given) == SortNeurons(given)

\* what the constructor leaves in the caller's list
CallerListAfter(given) == given

\* Network(performance_node, neurons)
NetworkInit ==
  /\ pc = "new"
  /\ net_neurons' = NetworkNeurons(neurons)
  /\ neurons' = CallerListAfter(neurons)
  /\ net_inputs' = CollectInputs(net_neurons', <<>>)
  /\ net_weights' = CollectWeights(net_neurons')
  /\ pc' = "idle"
  /\ last' = [NoCall EXCEPT !.op = "Network"]
  /\ UNCHANGED <<graphVars, valueVars, cacheVars, ret, trainVars, histVars>>

\* ------------------------------------------------------------ the memory
\* The mutable fields the node methods read and write, passed through the
\* calls; every method returns its result with the memory it leaves.
Mem ==
  [ in_value |-> in_value, w_value |-> w_value,
    my_output |-> my_output, my_doutdx |-> my_doutdx,
    my_descendant_weights |-> my_descendant_weights,
    my_desired_val |-> my_desired_val ]

\* v = <expression>; <rest>: the expression is evaluated once and its value
\* is handed to the rest of the method
Bind(v, Rest(_)) == CHOOSE r \in {Rest(x) : x \in {v}} : TRUE

\* --------------------------------------- Neuron.get_descendant_weights
RECURSIVE get_descendant_weights(_, _)
RECURSIVE DescendantLoop(_, _, _)

\* a union that forgets st.add(name)
UnionOfItems_noadd(descendants) ==
  UNION {descendants[name] : name \in DOMAIN descendants}

\* for name, s in descendants.items(): st = st.union(s); st.add(name)
UnionOfItems(descendants) ==
  UNION {descendants[name] \cup {name} : name \in DOMAIN descendants}

\* self.my_descendant_weights[weight_name] = value, on neuron n
WithEntry(n, weight_name, value, m) ==
  [m EXCEPT !.my_descendant_weights[n].map = (weight_name :> value) @@ @]

\* the body of `for i in range(len(weights))`, from index i on
DescendantLoop(n, i, m) ==
  IF i > Len(my_weights[n]) THEN m
  ELSE
    LET weight_name == w_name[my_weights[n][i]]
        input == my_inputs[n][i]
    IN
    \* self.my_descendant_weights[weight_name] = set()
    IF input \in InputIds
    THEN DescendantLoop(n, i + 1, WithEntry(n, weight_name, {}, m))
    ELSE
      \* descendants = input.get_descendant_weights()
      Bind(get_descendant_weights(input, WithEntry(n, weight_name, {}, m)),
           LAMBDA m2 :
             DescendantLoop(n, i + 1,
               WithEntry(n, weight_name,
                         UnionOfItems(m2.my_descendant_weights[input].map), m2)))

get_descendant_weights(n, m) ==
  IF m.my_descendant_weights[n].some THEN m
  ELSE DescendantLoop(n, 1,
         [m EXCEPT !.my_descendant_weights[n] = [some |-> TRUE, map |-> EmptyMap]])

\* a check that answers False where the code raises
isa_descendant_weight_of_noraise(n, target, weight, m) ==
  Bind(get_descendant_weights(n, m), LAMBDA m1 :
    LET weights == m1.my_descendant_weights[n].map
    IN  IF w_name[weight] \in DOMAIN weights
        THEN [ret |-> RetB(w_name[target] \in weights[w_name[weight]]), m |-> m1]
        ELSE [ret |-> RetB(FALSE), m |-> m1])

\* Neuron.isa_descendant_weight_of(target, weight)
isa_descendant_weight_of(n, target, weight, m) ==
  Bind(get_descendant_weights(n, m), LAMBDA m1 :
    LET weights == m1.my_descendant_weights[n].map
    IN  IF w_name[weight] \in DOMAIN weights
        THEN [ret |-> RetB(w_name[target] \in weights[w_name[weight]]), m |-> m1]
        ELSE [ret |-> Raise("Exception"), m |-> m1])

\* Neuron.has_weight(weight)
has_weight(n, weight, m) ==
  Bind(get_descendant_weights(n, m), LAMBDA m1 :
    [ret |-> RetB(w_name[weight] \in DOMAIN m1.my_descendant_weights[n].map),
     m |-> m1])

\* ------------------------------------------------------- forward pass
RECURSIVE output(_, _)
RECURSIVE SumLoop(_, _, _, _)

\* Input.output / Neuron.output of an element of an input list
NodeOutput(x, m) ==
  IF x \in InputIds THEN [val |-> m.in_value[x], m |-> m] ELSE output(x, m)

\* the loop of compute_output from index elem on: z += wei.get_value()*inp.output()
SumLoop(n, elem, z, m) ==
  IF elem > Len(my_inputs[n]) THEN [val |-> z, m |-> m]
  ELSE Bind(NodeOutput(my_inputs[n][elem], m), LAMBDA inp :
         SumLoop(n, elem + 1,
                 z + FMul(inp.m.w_value[my_weights[n][elem]], inp.val), inp.m))

\* Neuron.compute_output
compute_output(n, m) ==
  Bind(SumLoop(n, 1, 0, m), LAMBDA z : [val |-> Sigmoid(z.val), m |-> z.m])

\* an output() that never looks at its cache
output_nocache(n, m) == compute_output(n, m)

\* Neuron.output
output(n, m) ==
  IF use_cache[n]
  THEN IF m.my_output[n].some
       THEN [val |-> m.my_output[n].val, m |-> m]
       ELSE Bind(compute_output(n, m), LAMBDA r :
              [val |-> r.val, m |-> [r.m EXCEPT !.my_output[n] = Some(r.val)]])
  ELSE compute_output(n, m)

\* ---------------------------------------------------------- derivative
RECURSIVE dOutdX(_, _, _)
RECURSIVE IndirectLoop(_, _, _, _, _, _)

\* Input.dOutdX / Neuron.dOutdX of an element of an input list
NodeDOutdX(x, elem, m) ==
  IF x \in InputIds THEN [ret |-> Ret(0), m |-> m] ELSE dOutdX(x, elem, m)

\* a direct term that multiplies by the edge's weight instead of its input
DirectTerm_weight(n, i, sigDev, m) ==
  [ret |-> Ret(FMul(sigDev, m.w_value[my_weights[n][i]])), m |-> m]

\* return (sigDev * (self.get_inputs()[i].output()))
DirectTerm(n, i, sigDev, m) ==
  Bind(NodeOutput(my_inputs[n][i], m), LAMBDA x :
    [ret |-> Ret(FMul(sigDev, x.val)), m |-> x.m])

\* the branch taken when has_weight(elem) holds: the scan for the position
\* of elem (compared by identity); when the scan finds none, control falls
\* to `return dev` with dev never assigned
DirectBranch(n, elem, sigDev, m) ==
  LET found == {i \in 1..Len(my_inputs[n]) : my_weights[n][i] = elem}
  IN  IF found # {}
      THEN DirectTerm(n, CHOOSE i \in found : \A j \in found : i <= j, sigDev, m)
      ELSE [ret |-> Raise("UnboundLocalError"), m |-> m]

\* dev = (sigDev * weight.get_value() * inNeurons[i].dOutdX(elem))
IndirectTerm(sigDev, weight_value, input_deriv) ==
  FMul(FMul(sigDev, weight_value), input_deriv)

\* a loop that adds up the terms of all the edges that lead to elem
RECURSIVE IndirectLoop_sum(_, _, _, _, _, _)
IndirectLoop_sum(n, elem, i, dev, sigDev, m) ==
  IF i > Len(my_weights[n]) THEN [ret |-> Ret(dev), m |-> m]
  ELSE
    Bind(isa_descendant_weight_of(n, elem, my_weights[n][i], m), LAMBDA isa :
      IF isa.ret.err # "none" THEN isa
      ELSE IF ~isa.ret.b THEN IndirectLoop_sum(n, elem, i + 1, dev, sigDev, isa.m)
      ELSE
        Bind(NodeDOutdX(my_inputs[n][i], elem, isa.m), LAMBDA d1 :
          IF d1.ret.err # "none" THEN d1
          ELSE
            Bind(NodeDOutdX(my_inputs[n][i], elem, d1.m), LAMBDA d2 :
              IF d2.ret.err # "none" THEN d2
              ELSE IndirectLoop_sum(n, elem, i + 1,
                     dev + IndirectTerm(sigDev, d2.m.w_value[my_weights[n][i]],
                                        d2.ret.val),
                     sigDev, d2.m))))

\* the loop of the else branch from index i on, dev being the value so far
IndirectLoop(n, elem, i, dev, sigDev, m) ==
  IF i > Len(my_weights[n]) THEN [ret |-> Ret(dev), m |-> m]
  ELSE
    Bind(isa_descendant_weight_of(n, elem, my_weights[n][i], m), LAMBDA isa :
      IF isa.ret.err # "none" THEN isa
      ELSE IF ~isa.ret.b THEN IndirectLoop(n, elem, i + 1, dev, sigDev, isa.m)
      ELSE
        \* input_deriv = self.get_inputs()[i].dOutdX(elem)
        Bind(NodeDOutdX(my_inputs[n][i], elem, isa.m), LAMBDA d1 :
          IF d1.ret.err # "none" THEN d1
          ELSE
            \* ... * (inNeurons[i]).dOutdX(elem): the second call
            Bind(NodeDOutdX(my_inputs[n][i], elem, d1.m), LAMBDA d2 :
              IF d2.ret.err # "none" THEN d2
              ELSE IndirectLoop(n, elem, i + 1,
                     IndirectTerm(sigDev, d2.m.w_value[my_weights[n][i]], d2.ret.val),
                     sigDev, d2.m))))

\* Neuron.compute_doutdx
compute_doutdx(n, elem, m) ==
  \* sigDev = (self.output())*(1-self.output())
  Bind(output(n, m), LAMBDA o1 :
    Bind(output(n, o1.m), LAMBDA o2 :
      Bind(has_weight(n, elem, o2.m), LAMBDA hw :
        IF hw.ret.b
        THEN DirectBranch(n, elem, FMul(o1.val, SCALE - o2.val), hw.m)
        ELSE IndirectLoop(n, elem, 1, 0, FMul(o1.val, SCALE - o2.val), hw.m))))

\* Neuron.dOutdX
dOutdX(n, elem, m) ==
  IF use_cache[n]
  THEN IF m.my_doutdx[n][elem].some
       THEN [ret |-> Ret(m.my_doutdx[n][elem].val), m |-> m]
       ELSE Bind(compute_doutdx(n, elem, m), LAMBDA r :
              IF r.ret.err # "none" THEN r
              ELSE [ret |-> r.ret,
                    m |-> [r.m EXCEPT !.my_doutdx[n][elem] = Some(r.ret.val)]])
  ELSE compute_doutdx(n, elem, m)

\* ------------------------------------------------------ PerformanceElem
\* PerformanceElem.output: -0.5*((desired - input.output())**2)
PerformanceOutput(m) ==
  Bind(NodeOutput(my_input, m), LAMBDA o :
    [val |-> FMul(-(SCALE \div 2),
                  FMul(o.m.my_desired_val - o.val, o.m.my_desired_val - o.val)),
     m |-> o.m])

\* PerformanceElem.dOutdX
PerformanceDOutdX(elem, m) ==
  Bind(NodeOutput(my_input, m), LAMBDA o :
    Bind(NodeDOutdX(my_input, elem, o.m), LAMBDA d :
      IF d.ret.err # "none" THEN d
      ELSE [ret |-> Ret(FMul(d.m.my_desired_val - o.val, d.ret.val)), m |-> d.m]))

\* ----------------------------------------------- calls on the built graph
GetDescendantWeightsCall(n) ==
  /\ pc = "idle"
  /\ my_descendant_weights' = get_descendant_weights(n, Mem).my_descendant_weights
  /\ last' = [NoCall EXCEPT !.op = "get_descendant_weights", !.n = n,
                            !.hit = my_descendant_weights[n].some]
  /\ ret' = Ret(0)
  /\ UNCHANGED <<graphVars, valueVars, my_output, my_doutdx, netVars, pc,
                 trainVars, histVars>>

IsaDescendantWeightOfCall(n, target, weight) ==
  /\ pc = "idle"
  /\ LET r == isa_descendant_weight_of(n, target, weight, Mem)
     IN  /\ my_descendant_weights' = r.m.my_descendant_weights
         /\ ret' = r.ret
  /\ last' = [NoCall EXCEPT !.op = "isa_descendant_weight_of", !.n = n,
                            !.t = target, !.w = weight]
  /\ UNCHANGED <<graphVars, valueVars, my_output, my_doutdx, netVars, pc,
                 trainVars, histVars>>

HasWeightCall(n, weight) ==
  /\ pc = "idle"
  /\ LET r == has_weight(n, weight, Mem)
     IN  /\ my_descendant_weights' = r.m.my_descendant_weights
         /\ ret' = r.ret
  /\ last' = [NoCall EXCEPT !.op = "has_weight", !.n = n, !.w = weight]
  /\ UNCHANGED <<graphVars, valueVars, my_output, my_doutdx, netVars, pc,
                 trainVars, histVars>>

\* n.dOutdX(elem) called from outside
DOutdXCall(n, elem) ==
  /\ pc = "idle"
  /\ ncalls < MaxCalls
  /\ LET r == dOutdX(n, elem, Mem)
     IN  /\ my_output' = r.m.my_output
         /\ my_doutdx' = r.m.my_doutdx
         /\ my_descendant_weights' = r.m.my_descendant_weights
         /\ ret' = r.ret
  /\ last' = [NoCall EXCEPT !.op = "dOutdX", !.n = n, !.w = elem,
                            !.hit = my_doutdx[n][elem].some]
  /\ ncalls' = ncalls + 1
  /\ UNCHANGED <<graphVars, valueVars, netVars, pc, trainVars, pre, dirty>>

\* network.performance.dOutdX(elem) called from outside
PerformanceDOutdXCall(elem) ==
  /\ pc = "idle"
  /\ ncalls < MaxCalls
  /\ LET r == PerformanceDOutdX(elem, Mem)
     IN  /\ my_output' = r.m.my_output
         /\ my_doutdx' = r.m.my_doutdx
         /\ my_descendant_weights' = r.m.my_descendant_weights
         /\ ret' = r.ret
  /\ last' = [NoCall EXCEPT !.op = "performance.dOutdX", !.w = elem]
  /\ ncalls' = ncalls + 1
  /\ UNCHANGED <<graphVars, valueVars, netVars, pc, trainVars, pre, dirty>>

\* ------------------------------------------- value changes and caches
\* the values the setters are called with: the other one of 0.0 and 1.0
OtherValue(v) == IF v = SCALE THEN 0 ELSE SCALE

\* a clear_cache that reaches only the first neuron of the list
ClearedOutputs_first(ns, mo) ==
  [n \in DOMAIN mo |-> IF ns # <<>> /\ n = Head(ns) THEN None ELSE mo[n]]

\* for n in self.neurons: n.clear_cache()   (self.my_output = None)
ClearedOutputs(ns, mo) ==
  [n \in DOMAIN mo |-> IF n \in Range(ns) THEN None ELSE mo[n]]

\* for n in self.neurons: n.clear_cache()   (self.my_doutdx = {})
ClearedDoutdx(ns, md) ==
  [n \in DOMAIN md |-> IF n \in Range(ns) THEN [w \in DOMAIN md[n] |-> None]
                                           ELSE md[n]]

\* Input.set_value(val) on an Input of the network
SetInputValue(i) ==
  /\ pc = "idle"
  /\ ncalls < MaxSets
  /\ in_value' = [in_value EXCEPT ![i] = OtherValue(in_value[i])]
  /\ last' = [NoCall EXCEPT !.op = "Input.set_value", !.n = i]
  /\ dirty' = TRUE
  /\ ncalls' = ncalls + 1
  /\ UNCHANGED <<graphVars, w_value, next_value, my_desired_val, cacheVars,
                 netVars, pc, ret, trainVars, pre>>

\* Weight.set_value(val) on a Weight of the network
SetWeightValue(w) ==
  /\ pc = "idle"
  /\ ncalls < MaxSets
  /\ w_value' = [w_value EXCEPT ![w] = OtherValue(w_value[w])]
  /\ last' = [NoCall EXCEPT !.op = "Weight.set_value", !.w = w]
  /\ dirty' = TRUE
  /\ ncalls' = ncalls + 1
  /\ UNCHANGED <<graphVars, in_value, next_value, my_desired_val, cacheVars,
                 netVars, pc, ret, trainVars, pre>>

\* Network.clear_cache()
NetworkClearCache ==
  /\ pc = "idle"
  /\ my_output' = ClearedOutputs(net_neurons, my_output)
  /\ my_doutdx' = ClearedDoutdx(net_neurons, my_doutdx)
  /\ last' = [NoCall EXCEPT !.op = "Network.clear_cache"]
  /\ dirty' = FALSE
  /\ UNCHANGED <<graphVars, valueVars, my_descendant_weights, netVars, pc, ret,
                 trainVars, pre, ncalls>>

\* Neuron.clear_cache() on one neuron
NeuronClearCache(n) ==
  /\ pc = "idle"
  /\ my_output' = ClearedOutputs(<<n>>, my_output)
  /\ my_doutdx' = ClearedDoutdx(<<n>>, my_doutdx)
  /\ last' = [NoCall EXCEPT !.op = "Neuron.clear_cache", !.n = n]
  /\ UNCHANGED <<graphVars, valueVars, my_descendant_weights, netVars, pc, ret,
                 trainVars, histVars>>

\* n.output() called from outside
OutputCall(n) ==
  /\ pc = "idle"
  /\ LET r == output(n, Mem)
     IN  /\ my_output' = r.m.my_output
         /\ ret' = Ret(r.val)
  /\ last' = [NoCall EXCEPT !.op = "output", !.n = n,
                            !.hit = my_output[n].some, !.old = my_output[n].val]
  /\ UNCHANGED <<graphVars, valueVars, my_doutdx, my_descendant_weights, netVars,
                 pc, trainVars, histVars>>

NextApi ==
  \/ NetworkInit
  \/ \E i \in Range(net_inputs) : SetInputValue(i)
  \/ \E w \in Range(net_weights) : SetWeightValue(w)
  \/ NetworkClearCache
  \/ \E n \in NeuronIds : NeuronClearCache(n)
  \/ \E n \in NeuronIds : OutputCall(n)

\* construction followed by any calls of the setters, clear_cache and output
SpecApi == InitSmall /\ [][NextApi]_vars

\* ------------------------------------------------------------- train()
\* the datasets: tuples of feature values followed by the label
Datasets ==
  { << <<SCALE, SCALE, SCALE>>, <<0, 0, 0>> >>,
    << <<0, SCALE, 0>>, <<SCALE, 0, SCALE>> >> }
\* the learning rates and the thresholds train() is called with
Rates == {SCALE}
Targets == {1, SCALE \div 5}

\* utility.abs_mean(values): the mean of the absolute values
RECURSIVE SumAbs(_)
SumAbs(q) == IF q = <<>> THEN 0 ELSE Abs(Head(q)) + SumAbs(Tail(q))
abs_mean(q) == SumAbs(q) \div Len(q)

\* for i in range(len(network.inputs)): network.inputs[i].set_value(datum[i])
InputsSetTo(datum) ==
  [i \in DOMAIN in_value |->
     IF i \in Range(net_inputs)
     THEN datum[CHOOSE k \in 1..Len(net_inputs) : net_inputs[k] = i]
     ELSE in_value[i]]

\* train(network, data, rate, target_abs_mean_performance, max_iterations)
\* is called: iteration = 0
TrainStart(d, r, t, mx) ==
  /\ pc = "idle"
  /\ ncalls = 0
  /\ data' = d
  /\ rate' = r
  /\ target_abs_mean_performance' = t
  /\ max_iterations' = mx
  /\ iteration' = 0
  /\ pc' = "while"
  /\ ncalls' = 1
  /\ last' = [NoCall EXCEPT !.op = "train()"]
  /\ UNCHANGED <<graphVars, valueVars, cacheVars, netVars, ret, di, wi,
                 performances, correct, result, pre, dirty>>

\* the loop test that lets the counter reach max_iterations + 1
WhileTest_le == iteration <= max_iterations

\* while iteration < max_iterations
WhileTest == iteration < max_iterations

\* the head of the while loop: either start a pass (performances = [],
\* correct = 0, first datum) or leave the loop and return
WhileHead ==
  /\ pc = "while"
  /\ IF WhileTest
     THEN /\ performances' = <<>>
          /\ correct' = 0
          /\ di' = 1
          /\ pc' = "for"
          /\ UNCHANGED last
     ELSE /\ pc' = "idle"
          /\ last' = [NoCall EXCEPT !.op = "train"]
          /\ UNCHANGED <<performances, correct, di>>
  /\ UNCHANGED <<graphVars, valueVars, cacheVars, netVars, ret, data, rate,
                 target_abs_mean_performance, max_iterations, iteration, wi,
                 result, histVars>>

\* the head of `for datum in data` with the datum's forward pass: set the
\* inputs and the desired value, clear the caches, evaluate the output and
\* the performance; or, when the data are exhausted, go to the pass's end
DatumForward ==
  /\ pc = "for"
  /\ IF di <= Len(data)
     THEN LET datum == data[di]
              m0 == [Mem EXCEPT !.in_value = InputsSetTo(datum),
                                !.my_desired_val = datum[Len(datum)],
                                !.my_output = ClearedOutputs(net_neurons, my_output),
                                !.my_doutdx = ClearedDoutdx(net_neurons, my_doutdx)]
              res == NodeOutput(my_input, m0)
              perf == PerformanceOutput(res.m)
          IN  /\ in_value' = m0.in_value
              /\ my_desired_val' = m0.my_desired_val
              /\ result' = res.val
              /\ correct' = IF Round(res.val) = datum[Len(datum)]
                            THEN correct + 1 ELSE correct
              /\ my_output' = perf.m.my_output
              /\ my_doutdx' = perf.m.my_doutdx
              /\ pre' = w_value
              /\ wi' = 1
              /\ pc' = "stage"
     ELSE /\ pc' = "check"
          /\ UNCHANGED <<in_value, my_desired_val, result, correct, my_output,
                         my_doutdx, pre, wi>>
  /\ UNCHANGED <<graphVars, w_value, next_value, my_descendant_weights, netVars,
                 last, ret, data, rate, target_abs_mean_performance,
                 max_iterations, iteration, di, performances, dirty, ncalls>>

\* a staging step that commits the weight at once
Stage_sequential ==
  /\ pc = "stage"
  /\ IF wi <= Len(net_weights)
     THEN LET w == net_weights[wi]
              d == PerformanceDOutdX(w, Mem)
          IN  /\ my_output' = d.m.my_output
              /\ my_doutdx' = d.m.my_doutdx
              /\ my_descendant_weights' = d.m.my_descendant_weights
              /\ IF d.ret.err # "none"
                 THEN /\ pc' = "raised"
                      /\ ret' = d.ret
                      /\ UNCHANGED <<next_value, wi, w_value>>
                 ELSE /\ next_value' = [next_value EXCEPT ![w] =
                                          Some(w_value[w] + FMul(rate, d.ret.val))]
                      /\ w_value' = [w_value EXCEPT ![w] =
                                          w_value[w] + FMul(rate, d.ret.val)]
                      /\ wi' = wi + 1
                      /\ UNCHANGED <<pc, ret>>
     ELSE /\ pc' = "commit"
          /\ wi' = 1
          /\ UNCHANGED <<next_value, cacheVars, ret, w_value>>
  /\ UNCHANGED <<graphVars, in_value, my_desired_val, netVars, last,
                 data, rate, target_abs_mean_performance, max_iterations,
                 iteration, di, performances, correct, result, histVars>>

\* one turn of `for w in network.weights: w.set_next_value(w.get_value() +
\* rate * network.performance.dOutdX(w))`, or the loop's exit; an exception
\* of dOutdX leaves train()
Stage ==
  /\ pc = "stage"
  /\ IF wi <= Len(net_weights)
     THEN LET w == net_weights[wi]
              d == PerformanceDOutdX(w, Mem)
          IN  /\ my_output' = d.m.my_output
              /\ my_doutdx' = d.m.my_doutdx
              /\ my_descendant_weights' = d.m.my_descendant_weights
              /\ IF d.ret.err # "none"
                 THEN /\ pc' = "raised"
                      /\ ret' = d.ret
                      /\ UNCHANGED <<next_value, wi>>
                 ELSE /\ next_value' = [next_value EXCEPT ![w] =
                                          Some(w_value[w] + FMul(rate, d.ret.val))]
                      /\ wi' = wi + 1
                      /\ UNCHANGED <<pc, ret>>
     ELSE /\ pc' = "commit"
          /\ wi' = 1
          /\ UNCHANGED <<next_value, cacheVars, ret>>
  /\ UNCHANGED <<graphVars, in_value, w_value, my_desired_val, netVars, last,
                 data, rate, target_abs_mean_performance, max_iterations,
                 iteration, di, performances, correct, result, histVars>>

\* one turn of `for w in network.weights: w.update()`, or the loop's exit
Commit ==
  /\ pc = "commit"
  /\ IF wi <= Len(net_weights)
     THEN /\ w_value' = [w_value EXCEPT ![net_weights[wi]] =
                           next_value[net_weights[wi]].val]
          /\ wi' = wi + 1
          /\ UNCHANGED pc
     ELSE /\ pc' = "record"
          /\ UNCHANGED <<w_value, wi>>
  /\ UNCHANGED <<graphVars, in_value, next_value, my_desired_val, cacheVars,
                 netVars, last, ret, data, rate, target_abs_mean_performance,
                 max_iterations, iteration, di, performances, correct, result,
                 histVars>>

\* performances.append(network.performance.output()); network.clear_cache();
\* next datum
Record ==
  /\ pc = "record"
  /\ LET perf == PerformanceOutput(Mem)
     IN  /\ performances' = Append(performances, perf.val)
         /\ my_output' = ClearedOutputs(net_neurons, perf.m.my_output)
         /\ my_doutdx' = ClearedDoutdx(net_neurons, perf.m.my_doutdx)
  /\ di' = di + 1
  /\ pc' = "for"
  /\ UNCHANGED <<graphVars, valueVars, my_descendant_weights, netVars, last, ret,
                 data, rate, target_abs_mean_performance, max_iterations,
                 iteration, wi, correct, result, histVars>>

\* the end of a pass: break (and return) when the mean is below the
\* threshold, else iteration += 1 and back to the loop test
PassEnd ==
  /\ pc = "check"
  /\ IF abs_mean(performances) < target_abs_mean_performance
     THEN /\ pc' = "idle"
          /\ last' = [NoCall EXCEPT !.op = "train", !.hit = TRUE]
          /\ UNCHANGED iteration
     ELSE /\ iteration' = iteration + 1
          /\ pc' = "while"
          /\ UNCHANGED last
  /\ UNCHANGED <<graphVars, valueVars, cacheVars, netVars, ret, data, rate,
                 target_abs_mean_performance, max_iterations, di, wi,
                 performances, correct, result, histVars>>

\* -------------------------------------------------------------- test()
\* test(network, data) is called: correct = 0
TestStart(d) ==
  /\ pc = "idle"
  /\ ncalls <= 1
  /\ data' = d
  /\ correct' = 0
  /\ di' = 1
  /\ pc' = "test"
  /\ ncalls' = 2
  /\ last' = [NoCall EXCEPT !.op = "test()"]
  /\ UNCHANGED <<graphVars, valueVars, cacheVars, netVars, ret, rate,
                 target_abs_mean_performance, max_iterations, iteration, wi,
                 performances, result, pre, dirty>>

\* a test step that also commits the staged weights
TestDatum_update ==
  /\ pc = "test"
  /\ di <= Len(data)
  /\ LET datum == data[di]
         m0 == [Mem EXCEPT !.in_value = InputsSetTo(datum),
                           !.my_output = ClearedOutputs(net_neurons, my_output),
                           !.my_doutdx = ClearedDoutdx(net_neurons, my_doutdx)]
         res == NodeOutput(my_input, m0)
     IN  /\ in_value' = m0.in_value
         /\ result' = res.val
         /\ my_output' = ClearedOutputs(net_neurons, res.m.my_output)
         /\ my_doutdx' = ClearedDoutdx(net_neurons, res.m.my_doutdx)
         /\ correct' = IF Round(res.val) = datum[Len(datum)]
                       THEN correct + 1 ELSE correct
  /\ w_value' = [w \in DOMAIN w_value |-> next_value[w].val]
  /\ di' = di + 1
  /\ UNCHANGED <<graphVars, next_value, my_desired_val,
                 my_descendant_weights, netVars, pc, last, ret, data, rate,
                 target_abs_mean_performance, max_iterations, iteration, wi,
                 performances, histVars>>

\* one turn of `for datum in data`: set the inputs, clear the caches,
\* evaluate the output, clear the caches, count a correct prediction
TestDatum ==
  /\ pc = "test"
  /\ di <= Len(data)
  /\ LET datum == data[di]
         m0 == [Mem EXCEPT !.in_value = InputsSetTo(datum),
                           !.my_output = ClearedOutputs(net_neurons, my_output),
                           !.my_doutdx = ClearedDoutdx(net_neurons, my_doutdx)]
         res == NodeOutput(my_input, m0)
     IN  /\ in_value' = m0.in_value
         /\ result' = res.val
         /\ my_output' = ClearedOutputs(net_neurons, res.m.my_output)
         /\ my_doutdx' = ClearedDoutdx(net_neurons, res.m.my_doutdx)
         /\ correct' = IF Round(res.val) = datum[Len(datum)]
                       THEN correct + 1 ELSE correct
  /\ di' = di + 1
  /\ UNCHANGED <<graphVars, w_value, next_value, my_desired_val,
                 my_descendant_weights, netVars, pc, last, ret, data, rate,
                 target_abs_mean_performance, max_iterations, iteration, wi,
                 performances, histVars>>

\* return float(correct)/len(data)
TestReturn ==
  /\ pc = "test"
  /\ di > Len(data)
  /\ ret' = Ret((correct * SCALE) \div Len(data))
  /\ pc' = "idle"
  /\ last' = [NoCall EXCEPT !.op = "test"]
  /\ UNCHANGED <<graphVars, valueVars, cacheVars, netVars, trainVars, histVars>>

NextTrain ==
  \/ NetworkInit
  \/ \E d \in Datasets, r \in Rates, t \in Targets, mx \in 0..MaxIter :
       TrainStart(d, r, t, mx)
  \/ WhileHead
  \/ DatumForward
  \/ Stage
  \/ Commit
  \/ Record
  \/ PassEnd
  \/ \E d \in Datasets : TestStart(d)
  \/ TestDatum
  \/ TestReturn

\* construction followed by train() and test() calls
SpecTrain == InitValues /\ [][NextTrain]_vars

\* a step of a running train() call
TrainStep == WhileHead \/ DatumForward \/ Stage \/ Commit \/ Record \/ PassEnd

\* the same, with the interpreter running a started train() to its next
\* statement
SpecTrainLive == SpecTrain /\ WF_vars(TrainStep)

NextDeriv ==
  \/ NetworkInit
  \/ \E n \in NeuronIds, w \in WeightIds : DOutdXCall(n, w)
  \/ \E w \in WeightIds : PerformanceDOutdXCall(w)

\* construction followed by derivative calls on a graph whose values stay
\* as constructed
SpecDeriv == InitValues /\ [][NextDeriv]_vars

NextDesc ==
  \/ NetworkInit
  \/ \E n \in NeuronIds : GetDescendantWeightsCall(n)
  \/ \E n \in NeuronIds, t \in WeightIds, w \in WeightIds :
       IsaDescendantWeightOfCall(n, t, w)
  \/ \E n \in NeuronIds, w \in WeightIds : HasWeightCall(n, w)

\* construction followed by any calls of the topology queries
SpecDesc == InitOrders /\ [][NextDesc]_vars

\* every operation of the program
Next == NextApi \/ NextTrain \/ NextDeriv \/ NextDesc

Spec == Init /\ [][Next]_vars

\* ------------------------------------------------- reference definitions
\* the Weight objects on the edges of the transitive fan-in of a node
RECURSIVE FanIn(_)
FanIn(x) ==
  IF x \in InputIds THEN {}
  ELSE UNION {{my_weights[x][i]} \cup FanIn(my_inputs[x][i]) :
                i \in 1..Len(my_inputs[x])}

NamesOf(S) == {w_name[w] : w \in S}

\* the neurons of a set in ascending order of name
Ascending(S) ==
  CHOOSE p \in [1..Cardinality(S) -> S] :
    \A k \in 1..(Cardinality(S) - 1) : StrGreater(Chars(p[k + 1]), Chars(p[k]))

RECURSIVE Concat(_, _)
Concat(f, ns) == IF ns = <<>> THEN <<>> ELSE f[Head(ns)] \o Concat(f, Tail(ns))

\* a sequence without its repeated elements, first occurrences kept
RECURSIVE FirstSeen(_)
FirstSeen(q) ==
  IF q = <<>> THEN <<>>
  ELSE LET r == FirstSeen(SubSeq(q, 1, Len(q) - 1))
       IN  IF q[Len(q)] \in Range(r) THEN r ELSE Append(r, q[Len(q)])

\* the Inputs of the listed neurons whose name does not start with "i0"
NonBiasInputs(ns) ==
  FirstSeen(SelectSeq(Concat(my_inputs, ns),
      LAMBDA x : x \in InputIds /\ ~StartsWith(Chars(x), <<"i", "0">>)))

\* position of a weight object in a neuron's weight list
PosOf(n, w) == CHOOSE i \in 1..Len(my_weights[n]) : my_weights[n][i] = w

\* ------------------------------------------------------------ the claims

\* the memory of the current datum's step with every weight at the value
\* it had when the step began and the caches as clear_cache() leaves them
PreUpdateMem ==
  [Mem EXCEPT !.w_value = pre,
              !.my_output = ClearedOutputs(net_neurons, my_output),
              !.my_doutdx = ClearedDoutdx(net_neurons, my_doutdx)]

\* w.get_value() + rate * network.performance.dOutdX(w), every weight at
\* its pre-update value
ExpectedStaged(w) ==
  Some(pre[w] + FMul(rate, PerformanceDOutdX(w, PreUpdateMem).ret.val))

\* C1: in a datum's step of train() no weight is updated while weights are
\* being staged; every staged value is the weight's pre-update value plus
\* rate times performance.dOutdX(weight) taken with all weights at their
\* pre-update values; the commit pass starts only when every weight of
\* network.weights is staged, and after it every weight's value is its
\* staged value.
C1_SynchronousUpdate ==
  /\ pc = "stage" =>
       /\ w_value = pre
       /\ \A k \in 1..Len(net_weights) :
            k < wi => next_value[net_weights[k]] = ExpectedStaged(net_weights[k])
  /\ pc = "commit" =>
       \A k \in 1..Len(net_weights) :
         /\ next_value[net_weights[k]] = ExpectedStaged(net_weights[k])
         /\ w_value[net_weights[k]] =
              IF k < wi THEN next_value[net_weights[k]].val ELSE pre[net_weights[k]]
  /\ pc = "record" =>
       \A k \in 1..Len(net_weights) :
         /\ next_value[net_weights[k]] = ExpectedStaged(net_weights[k])
         /\ w_value[net_weights[k]] = next_value[net_weights[k]].val

\* a commit pass has ended on a two-layer network in the second pass, and
\* it moved a first-layer and a last-layer weight
C1_Witness ==
  /\ pc = "record"
  /\ iteration = 1
  /\ \E a, b \in Range(net_weights) :
       /\ a \in Range(my_weights[my_input])
       /\ b \notin Range(my_weights[my_input])
       /\ w_value[a] # pre[a]
       /\ w_value[b] # pre[b]

\* a train() call is between its first statement and its return
TrainRunning == pc \in {"while", "for", "stage", "commit", "record", "check"}

\* train() has returned
TrainReturned == pc = "idle" /\ last.op = "train"

C6_TestKeepsWeights ==
  [][(pc = "test" \/ pc' = "test") =>
       UNCHANGED <<w_value, next_value, graphVars, netVars, my_desired_val>>]_vars

\* test() returned on a trained network after writing the Inputs
C6_Witness ==
  /\ pc = "idle"
  /\ last.op = "test"
  /\ \E w \in Range(net_weights) : next_value[w].some
  /\ \E i \in Range(net_inputs) : in_value[i] = SCALE

\* the value n.output() computes from the current Input and Weight values
Recomputed(n) ==
  output(n, [Mem EXCEPT !.my_output = [x \in NeuronIds |-> None]]).val

\* C2: a caching neuron whose output is cached returns the cached value
\* from output(), whatever was changed upstream since; and when no value
\* has changed since the last Network.clear_cache(), output() returns the
\* value recomputed from the current Input and Weight values.
C2_StaleUntilCleared ==
  (last.op = "output" /\ use_cache[last.n]) =>
    /\ last.hit => ret = Ret(last.old)
    /\ ~dirty => ret = Ret(Recomputed(last.n))

\* output() returned a cached value that the current values no longer give
C2_Witness ==
  /\ last.op = "output"
  /\ use_cache[last.n]
  /\ last.hit
  /\ dirty
  /\ ret.val # Recomputed(last.n)

\* C3: for a direct weight w of neuron n, n.dOutdX(w) is s * x with
\* s = n.output() * (1 - n.output()) and x the output() of the input that
\* is paired with w.
C3_DirectDerivative ==
  (last.op = "dOutdX" /\ last.w \in Range(my_weights[last.n])) =>
    LET o == output(last.n, Mem).val
        x == NodeOutput(my_inputs[last.n][PosOf(last.n, last.w)], Mem).val
    IN  ret = Ret(FMul(FMul(o, SCALE - o), x))

\* a direct derivative that is not zero, taken along an edge from a neuron
C3_Witness ==
  /\ last.op = "dOutdX"
  /\ last.w \in Range(my_weights[last.n])
  /\ my_inputs[last.n][PosOf(last.n, last.w)] \notin InputIds
  /\ ret.err = "none"
  /\ ret.val # 0

\* the incoming edges of n whose source has w in its transitive fan-in
EdgesTo(n, w) == {i \in 1..Len(my_inputs[n]) : w \in FanIn(my_inputs[n][i])}

\* the highest such edge
LastEdgeTo(n, w) == CHOOSE i \in EdgesTo(n, w) : \A j \in EdgesTo(n, w) : j <= i

\* s * weight[i].value * input[i].dOutdX(w) along edge i of n
EdgeTerm(n, i, w) ==
  LET o == output(n, Mem).val
  IN  FMul(FMul(FMul(o, SCALE - o), w_value[my_weights[n][i]]),
           NodeDOutdX(my_inputs[n][i], w, Mem).ret.val)

\* C11: for a weight w that is not a direct weight of n but lies in the
\* transitive fan-in of n, n.dOutdX(w) is s * weight[i].value *
\* input[i].dOutdX(w) for the last incoming edge i whose source depends on
\* w; the terms of the other such edges are not added.
C11_LastEdgeOnly ==
  (/\ last.op = "dOutdX"
   /\ last.w \notin Range(my_weights[last.n])
   /\ last.w \in FanIn(last.n)) =>
    ret = Ret(EdgeTerm(last.n, LastEdgeTo(last.n, last.w), last.w))

\* a derivative through a diamond: two incoming edges lead to the weight,
\* both with a term that is not zero, and the result is the last one's
C11_Witness ==
  /\ last.op = "dOutdX"
  /\ last.w \notin Range(my_weights[last.n])
  /\ Cardinality(EdgesTo(last.n, last.w)) = 2
  /\ \A i \in EdgesTo(last.n, last.w) : EdgeTerm(last.n, i, last.w) # 0
  /\ ret.err = "none"
  /\ ret.val # 0

\* C4: for a Weight object that is neither a direct weight of n nor in the
\* transitive fan-in of n, whatever its name, n.dOutdX returns 0 and does
\* not raise.
C4_NoPathIsZero ==
  (last.op = "dOutdX" /\ last.w \notin FanIn(last.n)) => ret = Ret(0)

\* C7: Network.weights is the concatenation of the neurons' weight lists
\* taken over the neurons in alphabetical order of name, whatever the order
\* of the list passed to the constructor, and the constructor leaves the
\* caller's list as it was.
C7_WeightsAlphabetical ==
  [][pc = "new" =>
       /\ net_weights' = Concat(my_weights, Ascending(Range(neurons)))
       /\ neurons' = neurons]_vars

\* a Network built from a three-neuron list that was not in name order
C7_Witness ==
  /\ last.op = "Network"
  /\ Len(neurons) = 3
  /\ neurons # net_neurons
  /\ Len(net_weights) > 3

\* C8: Network.inputs holds exactly the Inputs of the listed neurons whose
\* name does not start with "i0", once each, in first-seen order over the
\* neurons sorted by name.
C8_InputsByPrefix ==
  pc # "new" => net_inputs = NonBiasInputs(Ascending(Range(neurons)))

\* C9: the map get_descendant_weights leaves at a neuron has exactly the
\* names of the neuron's direct weights as keys, and maps the name of the
\* i-th direct weight to the names of the weights in the transitive fan-in
\* of the i-th input (none for an Input).
C9_DescendantMap ==
  \A n \in NeuronIds :
    my_descendant_weights[n].some =>
      LET map == my_descendant_weights[n].map
      IN  /\ DOMAIN map = NamesOf(Range(my_weights[n]))
          /\ \A i \in 1..Len(my_weights[n]) :
                map[w_name[my_weights[n][i]]] = NamesOf(FanIn(my_inputs[n][i]))

\* get_descendant_weights returned a map with an entry of three weights
\* that lie up to two layers deep
C9_Witness ==
  /\ last.op = "get_descendant_weights"
  /\ my_descendant_weights[last.n].some
  /\ \E k \in DOMAIN my_descendant_weights[last.n].map :
       /\ Cardinality(my_descendant_weights[last.n].map[k]) >= 3
       /\ \E i \in 1..Len(my_weights[last.n]) :
            /\ my_inputs[last.n][i] \notin InputIds
            /\ \E j \in 1..Len(my_inputs[my_inputs[last.n][i]]) :
                 my_inputs[my_inputs[last.n][i]][j] \notin InputIds

\* C10: isa_descendant_weight_of(target, weight) raises when weight is not
\* a direct weight of the neuron, and otherwise answers whether target lies
\* in the transitive fan-in of the edge that carries weight; the queries
\* compute_doutdx makes (the neuron's own weights, any target) never raise.
C10_IsaDescendant ==
  /\ last.op = "isa_descendant_weight_of" =>
       IF last.w \in Range(my_weights[last.n])
       THEN ret = RetB(last.t \in FanIn(my_inputs[last.n][PosOf(last.n, last.w)]))
       ELSE ret.err = "Exception"
  /\ \A n \in NeuronIds, t \in WeightIds :
       \A i \in 1..Len(my_weights[n]) :
         isa_descendant_weight_of(n, t, my_weights[n][i], Mem).ret.err = "none"

\* the query raised for a weight of another neuron of the network
C10_Witness ==
  /\ last.op = "isa_descendant_weight_of"
  /\ ret.err = "Exception"
  /\ last.w \in Range(net_weights)

\* the performance of the current datum under the weights its step began
\* with: the value of step 5, network.performance.output() before staging
PreUpdatePerformance == PerformanceOutput(PreUpdateMem).val

\* the performance of the current datum recomputed from the current weights
CurrentPerformance ==
  PerformanceOutput([Mem EXCEPT
      !.my_output = ClearedOutputs(net_neurons, my_output),
      !.my_doutdx = ClearedDoutdx(net_neurons, my_doutdx)]).val

\* every neuron of the network was constructed with use_cache=True
AllCaching == \A n \in Range(net_neurons) : use_cache[n]

\* C12 as stated: the value train() appends for a datum after the commit
\* pass is the performance of before the update, whatever the network.
C12_AppendsPreUpdate ==
  [][pc = "record" =>
       performances' = Append(performances, PreUpdatePerformance)]_vars

\* C12, for networks whose neurons cache their output (use_cache=True, the
\* default): the value train() appends for a datum after the commit pass
\* is the performance of before the update, so the convergence test reads
\* pre-update performances.
C12_CachedAppendsPreUpdate ==
  [][(pc = "record" /\ AllCaching) =>
       performances' = Append(performances, PreUpdatePerformance)]_vars

\* train() appended, on a caching network, a value that the committed
\* weights no longer give
C12_Witness ==
  /\ pc = "for"
  /\ di > 1
  /\ AllCaching
  /\ w_value # pre
  /\ performances # <<>>
  /\ performances[Len(performances)] # CurrentPerformance

====
